---- MODULE Spec2Model ----
(***************************************************************************)
(* A model of core/main.go of AutoSpotting: the event dispatch of          *)
(* EventHandler, the periodic scan (ProcessCronEvent, getRegions and the   *)
(* goroutine fan-out of processRegions with its sync.WaitGroup) and the    *)
(* event-scoped decision of handleNewInstanceLaunch.                       *)
(***************************************************************************)
EXTENDS Integers, Sequences, FiniteSets, TLC

\* Bounds of the model.
MaxRegions == 2      \* longest DescribeRegions response
MaxRecords == 2      \* longest Records list of an SNS envelope
MaxWorkers == 3      \* most concurrent writers of the savings total

(***************************************************************************)
(* Configuration (type Config, held by AutoSpotting.config).               *)
(***************************************************************************)
AllRegions == {"r1", "r2", "r3"}
EnabledRegions == {"r1", "r2"}           \* conf.Regions: r3 is not enabled
FilteringModes == {"opt-out", "opt-in", "", "Opt-Out"}
FilterExprs == {"", " ", "k=v", " k=v "}
TerminationAction == "auto-scaling"      \* conf.TerminationNotificationAction

\* strings.TrimSpace over the filter expressions of the model
TrimSpace(s) == IF s = " " THEN "" ELSE IF s = " k=v " THEN "k=v" ELSE s

\* (cfg *Config) addDefaultFilteringMode
addDefaultFilteringMode(cfg) ==
    IF cfg.TagFilteringMode # "opt-out"
    THEN [cfg EXCEPT !.TagFilteringMode = "opt-in"]
    ELSE cfg

\* addDefaultFilter with the two default expressions exchanged
addDefaultFilterExchanged(cfg) ==
    IF TrimSpace(cfg.FilterByTags) = ""
    THEN IF cfg.TagFilteringMode = "opt-out"
         THEN [cfg EXCEPT !.FilterByTags = "spot-enabled=true"]
         ELSE [cfg EXCEPT !.FilterByTags = "spot-enabled=false"]
    ELSE cfg

\* (cfg *Config) addDefaultFilter
addDefaultFilter(cfg) ==
    IF TrimSpace(cfg.FilterByTags) = ""
    THEN IF cfg.TagFilteringMode = "opt-out"
         THEN [cfg EXCEPT !.FilterByTags = "spot-enabled=false"]
         ELSE [cfg EXCEPT !.FilterByTags = "spot-enabled=true"]
    ELSE cfg

\* (r *region) enabled: the Region Filter, a function of the region name and
\* of the allow-list of the configuration
enabled(name) == name \in EnabledRegions

(***************************************************************************)
(* Payloads.  A text is modelled by what the two decoders make of it.      *)
(* A Message is a text as json.Unmarshal into events.CloudWatchEvent sees  *)
(* it; a Payload is the raw event: besides its CloudWatchEvent view (body) *)
(* it has the view of json.Unmarshal into events.SNSEvent (snsOk,          *)
(* hasRecords, Records).  hasRecords = FALSE is a missing or null Records  *)
(* key (a nil slice); hasRecords = TRUE with Records = <<>> is "[]", which *)
(* decodes to an empty slice that is not nil.                              *)
(***************************************************************************)
SpotInterruption == "EC2 Spot Instance Interruption Warning"
StateChange == "EC2 Instance State-change Notification"
Scheduled == "Scheduled Event"
DetailTypes == {SpotInterruption, StateChange, Scheduled}
EventRegions == {"r1", "r3"}
InstanceStates == {"pending", "running", "stopped"}

BadDetail == [parses |-> FALSE, InstanceID |-> "", State |-> ""]
NoIDDetail == [parses |-> TRUE, InstanceID |-> "", State |-> ""]
Details ==
    {BadDetail, NoIDDetail}
      \cup [parses : {TRUE}, InstanceID : {"i-1"}, State : InstanceStates \cup {""}]

Malformed ==
    [wellFormed |-> FALSE, DetailType |-> "", Region |-> "", detail |-> BadDetail]
ScheduledMessage ==
    [wellFormed |-> TRUE, DetailType |-> Scheduled, Region |-> "r1",
     detail |-> NoIDDetail]
Messages ==
    {Malformed, ScheduledMessage}
      \cup { m \in [wellFormed : {TRUE}, DetailType : {SpotInterruption},
                    Region : EventRegions, detail : Details] :
               m.detail.State = "" }
      \cup [wellFormed : {TRUE}, DetailType : {StateChange},
            Region : EventRegions, detail : Details]
\* the records after the first one of an envelope
LaterMessages ==
    {Malformed, ScheduledMessage,
     [wellFormed |-> TRUE, DetailType |-> SpotInterruption, Region |-> "r1",
      detail |-> [parses |-> TRUE, InstanceID |-> "i-1", State |-> ""]]}

RECURSIVE SeqsUpTo(_, _)
SeqsUpTo(S, n) ==
    IF n = 0 THEN {<<>>}
    ELSE LET shorter == SeqsUpTo(S, n - 1)
         IN  shorter \cup { Append(s, x) : s \in { t \in shorter : Len(t) = n - 1 }, x \in S }

RecordLists ==
    { <<m>> \o rest : m \in Messages, rest \in SeqsUpTo(LaterMessages, MaxRecords - 1) }

NoEvent ==
    [present |-> FALSE, snsOk |-> FALSE, hasRecords |-> FALSE, Records |-> <<>>,
     body |-> Malformed]
Payloads ==
    {NoEvent,
     [present |-> TRUE, snsOk |-> FALSE, hasRecords |-> FALSE, Records |-> <<>>,
      body |-> Malformed]}
      \cup [present : {TRUE}, snsOk : {TRUE}, hasRecords : {FALSE},
            Records : {<<>>}, body : Messages]
      \cup [present : {TRUE}, snsOk : {TRUE}, hasRecords : {TRUE},
            Records : {<<>>}, body : Messages]
      \cup [present : {TRUE}, snsOk : {TRUE}, hasRecords : {TRUE},
            Records : RecordLists, body : {ScheduledMessage}]

\* json.Unmarshal(parseEvent, &snsEvent)
UnmarshalSNS(p) ==
    IF p.snsOk
    THEN [err |-> FALSE, RecordsNil |-> ~p.hasRecords, Records |-> p.Records]
    ELSE [err |-> TRUE, RecordsNil |-> TRUE, Records |-> <<>>]

\* json.Unmarshal(parseEvent, &cloudwatchEvent)
UnmarshalCloudWatch(m) ==
    IF m.wellFormed
    THEN [err |-> FALSE, DetailType |-> m.DetailType, Region |-> m.Region,
          Detail |-> m.detail]
    ELSE [err |-> TRUE, DetailType |-> "", Region |-> "", Detail |-> BadDetail]

\* getInstanceIDDueForTermination(cloudwatchEvent): (instanceID, err)
getInstanceIDDueForTermination(cw) ==
    IF ~cw.Detail.parses THEN [err |-> TRUE, instanceID |-> ""]
    ELSE [err |-> FALSE, instanceID |-> cw.Detail.InstanceID]

\* parseEventData(cloudwatchEvent): (instanceID, state, err)
parseEventData(cw) ==
    IF ~cw.Detail.parses THEN [err |-> TRUE, instanceID |-> "", state |-> ""]
    ELSE IF cw.Detail.InstanceID # "" /\ cw.Detail.State = ""
    THEN [err |-> TRUE, instanceID |-> "", state |-> ""]
    ELSE [err |-> FALSE, instanceID |-> cw.Detail.InstanceID,
          state |-> cw.Detail.State]

(***************************************************************************)
(* EventHandler up to the call it dispatches to.  The result names the     *)
(* position the handler reaches (next), the working payload (parseEvent)   *)
(* and the arguments of the call.  Indexing Records[0] of an empty slice   *)
(* that is not nil is a run-time panic (index out of range).               *)
(***************************************************************************)
NoTarget == [region |-> "", instanceID |-> "", state |-> ""]

\* EventHandler running the periodic scan when the working payload does not
\* decode
DispatchFallingBack(p) ==
    IF ~p.present
    THEN [next |-> "cron", parseEvent |-> p.body, target |-> NoTarget]
    ELSE
    LET sns == UnmarshalSNS(p) IN
    IF sns.err
    THEN [next |-> "done", parseEvent |-> p.body, target |-> NoTarget]
    ELSE IF ~sns.RecordsNil /\ Len(sns.Records) = 0
    THEN [next |-> "panicked", parseEvent |-> p.body, target |-> NoTarget]
    ELSE
    LET parseEvent == IF ~sns.RecordsNil THEN sns.Records[1] ELSE p.body
        cw == UnmarshalCloudWatch(parseEvent)
        stop == [next |-> "done", parseEvent |-> parseEvent, target |-> NoTarget]
    IN
    IF cw.err
    THEN [next |-> "cron", parseEvent |-> parseEvent, target |-> NoTarget]
    ELSE IF cw.DetailType = SpotInterruption
    THEN LET t == getInstanceIDDueForTermination(cw) IN
         IF t.err THEN stop
         ELSE IF t.instanceID # ""
         THEN [next |-> "terminate", parseEvent |-> parseEvent,
               target |-> [region |-> cw.Region, instanceID |-> t.instanceID,
                           state |-> ""]]
         ELSE stop
    ELSE IF cw.DetailType = StateChange
    THEN LET d == parseEventData(cw) IN
         IF d.err THEN stop
         ELSE IF d.instanceID # ""
         THEN [next |-> "launch", parseEvent |-> parseEvent,
               target |-> [region |-> cw.Region, instanceID |-> d.instanceID,
                           state |-> d.state]]
         ELSE stop
    ELSE [next |-> "cron", parseEvent |-> parseEvent, target |-> NoTarget]

\* EventHandler running the periodic scan when the detail of a recognized
\* event cannot be extracted
DispatchScanningOnBadDetail(p) ==
    IF ~p.present
    THEN [next |-> "cron", parseEvent |-> p.body, target |-> NoTarget]
    ELSE
    LET sns == UnmarshalSNS(p) IN
    IF sns.err
    THEN [next |-> "done", parseEvent |-> p.body, target |-> NoTarget]
    ELSE IF ~sns.RecordsNil /\ Len(sns.Records) = 0
    THEN [next |-> "panicked", parseEvent |-> p.body, target |-> NoTarget]
    ELSE
    LET parseEvent == IF ~sns.RecordsNil THEN sns.Records[1] ELSE p.body
        cw == UnmarshalCloudWatch(parseEvent)
        stop == [next |-> "done", parseEvent |-> parseEvent, target |-> NoTarget]
    IN
    IF cw.err THEN stop
    ELSE IF cw.DetailType = SpotInterruption
    THEN LET t == getInstanceIDDueForTermination(cw) IN
         IF t.err
         THEN [next |-> "cron", parseEvent |-> parseEvent, target |-> NoTarget]
         ELSE IF t.instanceID # ""
         THEN [next |-> "terminate", parseEvent |-> parseEvent,
               target |-> [region |-> cw.Region, instanceID |-> t.instanceID,
                           state |-> ""]]
         ELSE stop
    ELSE IF cw.DetailType = StateChange
    THEN LET d == parseEventData(cw) IN
         IF d.err
         THEN [next |-> "cron", parseEvent |-> parseEvent, target |-> NoTarget]
         ELSE IF d.instanceID # ""
         THEN [next |-> "launch", parseEvent |-> parseEvent,
               target |-> [region |-> cw.Region, instanceID |-> d.instanceID,
                           state |-> d.state]]
         ELSE stop
    ELSE [next |-> "cron", parseEvent |-> parseEvent, target |-> NoTarget]

Dispatch(p) ==
    IF ~p.present
    THEN [next |-> "cron", parseEvent |-> p.body, target |-> NoTarget]
    ELSE
    LET sns == UnmarshalSNS(p) IN
    IF sns.err
    THEN [next |-> "done", parseEvent |-> p.body, target |-> NoTarget]
    ELSE IF ~sns.RecordsNil /\ Len(sns.Records) = 0
    THEN [next |-> "panicked", parseEvent |-> p.body, target |-> NoTarget]
    ELSE
    LET parseEvent == IF ~sns.RecordsNil THEN sns.Records[1] ELSE p.body
        cw == UnmarshalCloudWatch(parseEvent)
        stop == [next |-> "done", parseEvent |-> parseEvent, target |-> NoTarget]
    IN
    IF cw.err THEN stop
    ELSE IF cw.DetailType = SpotInterruption
    THEN LET t == getInstanceIDDueForTermination(cw) IN
         IF t.err THEN stop
         ELSE IF t.instanceID # ""
         THEN [next |-> "terminate", parseEvent |-> parseEvent,
               target |-> [region |-> cw.Region, instanceID |-> t.instanceID,
                           state |-> ""]]
         ELSE stop
    ELSE IF cw.DetailType = StateChange
    THEN LET d == parseEventData(cw) IN
         IF d.err THEN stop
         ELSE IF d.instanceID # ""
         THEN [next |-> "launch", parseEvent |-> parseEvent,
               target |-> [region |-> cw.Region, instanceID |-> d.instanceID,
                           state |-> d.state]]
         ELSE stop
    ELSE [next |-> "cron", parseEvent |-> parseEvent, target |-> NoTarget]

(***************************************************************************)
(* getRegions: the response of DescribeRegions is an error flag and a list *)
(* of entries; the entry "" is a nil entry or one whose RegionName is nil. *)
(***************************************************************************)
RegionEntries == AllRegions \cup {""}
DescribeRegionsOutputs ==
    [err : BOOLEAN,
     Regions : { s \in SeqsUpTo(RegionEntries, MaxRegions) :
                   \A i, j \in 1..Len(s) : (i # j /\ s[i] = s[j]) => s[i] = "" }]
NoDescribe == [err |-> FALSE, Regions |-> <<>>]

\* getRegions dropping the error of DescribeRegions
getRegionsDroppingError(resp) ==
    [output |-> SelectSeq(resp.Regions, LAMBDA r : r # ""), err |-> FALSE]

getRegions(resp) ==
    IF resp.err
    THEN [output |-> <<>>, err |-> TRUE]
    ELSE [output |-> SelectSeq(resp.Regions, LAMBDA r : r # ""), err |-> FALSE]

(***************************************************************************)
(* State.                                                                  *)
(***************************************************************************)
VARIABLES
    conf,        \* a.config: TagFilteringMode and FilterByTags
    pc,          \* position of the goroutine that runs EventHandler
    event,       \* the payload of the invocation in progress
    parseEvent,  \* the working payload of EventHandler
    target,      \* region, instance ID and state handed to the dispatched call
    calls,       \* the calls EventHandler made in this invocation, in order
    describe,    \* the response DescribeRegions gave to getRegions
    regions,     \* allRegions, the argument of processRegions
    wg,          \* the counter of the sync.WaitGroup of processRegions
    units,       \* the goroutines processRegions started, in loop order
    world,       \* the collaborators' answers to handleNewInstanceLaunch
    result,      \* what handleNewInstanceLaunch did and returned
    hourlySavings,  \* a.hourlySavings, in whole units of currency
    savingsMutex,   \* a.savingsMutex: 0 when free, else the worker holding it
    workers,     \* the workers that add the saving of a successful action
    firstRun     \* the outcome of the first of two runs of the decision

(***************************************************************************)
(* handleNewInstanceLaunch.  A World is what the collaborators answer for  *)
(* the instance: scanInstance's error, whether instances.get finds it, its *)
(* scanned state, the three predicates and the outcome of the executors.   *)
(* The result lists the executors invoked, in order, and the error.        *)
(***************************************************************************)
Worlds ==
    { w \in [scanErr : BOOLEAN, found : BOOLEAN, State : InstanceStates,
             belongsToEnabledASG : BOOLEAN, shouldBeReplacedWithSpot : BOOLEAN,
             unattached : BOOLEAN, launchFails : BOOLEAN, swapFails : BOOLEAN] :
        /\ w.scanErr => ~w.found
        /\ ~w.found => /\ w.State = "pending"
                       /\ ~w.belongsToEnabledASG /\ ~w.shouldBeReplacedWithSpot
                       /\ ~w.unattached /\ ~w.launchFails /\ ~w.swapFails }
NoWorld ==
    [scanErr |-> FALSE, found |-> FALSE, State |-> "pending",
     belongsToEnabledASG |-> FALSE, shouldBeReplacedWithSpot |-> FALSE,
     unattached |-> FALSE, launchFails |-> FALSE, swapFails |-> FALSE]
NoResult == [returned |-> FALSE, scanned |-> FALSE, acts |-> <<>>, err |-> ""]

\* launching when either predicate holds
handleNewInstanceLaunchEither(regionName, state, w) ==
    IF ~enabled(regionName)
    THEN [returned |-> TRUE, scanned |-> FALSE, acts |-> <<>>,
          err |-> "region is not enabled"]
    ELSE IF w.scanErr
    THEN [returned |-> TRUE, scanned |-> FALSE, acts |-> <<>>,
          err |-> "scan failed"]
    ELSE IF ~w.found
    THEN [returned |-> TRUE, scanned |-> FALSE, acts |-> <<>>,
          err |-> "instance missing"]
    ELSE
    LET launch == /\ state = "pending"
                  /\ (w.belongsToEnabledASG \/ w.shouldBeReplacedWithSpot)
        first == IF launch THEN <<"launchSpotReplacement">> ELSE <<>>
    IN
    IF launch /\ w.launchFails
    THEN [returned |-> TRUE, scanned |-> TRUE, acts |-> first,
          err |-> "launch failed"]
    ELSE IF state = "running"
    THEN IF ~w.unattached
         THEN [returned |-> TRUE, scanned |-> TRUE, acts |-> first, err |-> ""]
         ELSE IF w.swapFails
         THEN [returned |-> TRUE, scanned |-> TRUE,
               acts |-> Append(first, "swapWithGroupMember"),
               err |-> "swap failed"]
         ELSE [returned |-> TRUE, scanned |-> TRUE,
               acts |-> Append(first, "swapWithGroupMember"), err |-> ""]
    ELSE [returned |-> TRUE, scanned |-> TRUE, acts |-> first, err |-> ""]

\* launching a second time when the launch fails
handleNewInstanceLaunchRetrying(regionName, state, w) ==
    IF ~enabled(regionName)
    THEN [returned |-> TRUE, scanned |-> FALSE, acts |-> <<>>,
          err |-> "region is not enabled"]
    ELSE IF w.scanErr
    THEN [returned |-> TRUE, scanned |-> FALSE, acts |-> <<>>,
          err |-> "scan failed"]
    ELSE IF ~w.found
    THEN [returned |-> TRUE, scanned |-> FALSE, acts |-> <<>>,
          err |-> "instance missing"]
    ELSE
    LET launch == /\ state = "pending"
                  /\ w.belongsToEnabledASG
                  /\ w.shouldBeReplacedWithSpot
        first == IF launch THEN <<"launchSpotReplacement">> ELSE <<>>
    IN
    IF launch /\ w.launchFails
    THEN [returned |-> TRUE, scanned |-> TRUE,
          acts |-> Append(first, "launchSpotReplacement"), err |-> ""]
    ELSE IF state = "running"
    THEN IF ~w.unattached
         THEN [returned |-> TRUE, scanned |-> TRUE, acts |-> first, err |-> ""]
         ELSE IF w.swapFails
         THEN [returned |-> TRUE, scanned |-> TRUE,
               acts |-> Append(first, "swapWithGroupMember"),
               err |-> "swap failed"]
         ELSE [returned |-> TRUE, scanned |-> TRUE,
               acts |-> Append(first, "swapWithGroupMember"), err |-> ""]
    ELSE [returned |-> TRUE, scanned |-> TRUE, acts |-> first, err |-> ""]

\* deciding without asking the Region Filter
handleNewInstanceLaunchUnfiltered(regionName, state, w) ==
    IF w.scanErr
    THEN [returned |-> TRUE, scanned |-> FALSE, acts |-> <<>>,
          err |-> "scan failed"]
    ELSE IF ~w.found
    THEN [returned |-> TRUE, scanned |-> FALSE, acts |-> <<>>,
          err |-> "instance missing"]
    ELSE
    LET launch == /\ state = "pending"
                  /\ w.belongsToEnabledASG
                  /\ w.shouldBeReplacedWithSpot
        first == IF launch THEN <<"launchSpotReplacement">> ELSE <<>>
    IN
    IF launch /\ w.launchFails
    THEN [returned |-> TRUE, scanned |-> TRUE, acts |-> first,
          err |-> "launch failed"]
    ELSE IF state = "running"
    THEN IF ~w.unattached
         THEN [returned |-> TRUE, scanned |-> TRUE, acts |-> first, err |-> ""]
         ELSE IF w.swapFails
         THEN [returned |-> TRUE, scanned |-> TRUE,
               acts |-> Append(first, "swapWithGroupMember"),
               err |-> "swap failed"]
         ELSE [returned |-> TRUE, scanned |-> TRUE,
               acts |-> Append(first, "swapWithGroupMember"), err |-> ""]
    ELSE [returned |-> TRUE, scanned |-> TRUE, acts |-> first, err |-> ""]

\* a decision that launches whatever the state of the event is
handleNewInstanceLaunchAnyState(regionName, state, w) ==
    IF ~enabled(regionName)
    THEN [returned |-> TRUE, scanned |-> FALSE, acts |-> <<>>,
          err |-> "region is not enabled"]
    ELSE IF w.scanErr
    THEN [returned |-> TRUE, scanned |-> FALSE, acts |-> <<>>,
          err |-> "scan failed"]
    ELSE IF ~w.found
    THEN [returned |-> TRUE, scanned |-> FALSE, acts |-> <<>>,
          err |-> "instance missing"]
    ELSE
    LET launch == /\ w.belongsToEnabledASG
                  /\ w.shouldBeReplacedWithSpot
        launched == IF launch THEN <<"launchSpotReplacement">> ELSE <<>>
    IN
    IF launch /\ w.launchFails
    THEN [returned |-> TRUE, scanned |-> TRUE, acts |-> launched,
          err |-> "launch failed"]
    ELSE IF state = "running"
    THEN IF ~w.unattached
         THEN [returned |-> TRUE, scanned |-> TRUE, acts |-> launched, err |-> ""]
         ELSE IF w.swapFails
         THEN [returned |-> TRUE, scanned |-> TRUE,
               acts |-> Append(launched, "swapWithGroupMember"),
               err |-> "swap failed"]
         ELSE [returned |-> TRUE, scanned |-> TRUE,
               acts |-> Append(launched, "swapWithGroupMember"), err |-> ""]
    ELSE [returned |-> TRUE, scanned |-> TRUE, acts |-> launched, err |-> ""]

\* a decision that acts only on the first event this process handles
handleNewInstanceLaunchOnce(regionName, state, w) ==
    IF ~enabled(regionName)
    THEN [returned |-> TRUE, scanned |-> FALSE, acts |-> <<>>,
          err |-> "region is not enabled"]
    ELSE IF w.scanErr
    THEN [returned |-> TRUE, scanned |-> FALSE, acts |-> <<>>,
          err |-> "scan failed"]
    ELSE IF ~w.found
    THEN [returned |-> TRUE, scanned |-> FALSE, acts |-> <<>>,
          err |-> "instance missing"]
    ELSE IF calls # <<>>
    THEN [returned |-> TRUE, scanned |-> TRUE, acts |-> <<>>, err |-> ""]
    ELSE
    LET launch == /\ state = "pending"
                  /\ w.belongsToEnabledASG
                  /\ w.shouldBeReplacedWithSpot
        acted == IF launch THEN <<"launchSpotReplacement">> ELSE <<>>
    IN
    IF launch /\ w.launchFails
    THEN [returned |-> TRUE, scanned |-> TRUE, acts |-> acted,
          err |-> "launch failed"]
    ELSE IF state = "running"
    THEN IF ~w.unattached
         THEN [returned |-> TRUE, scanned |-> TRUE, acts |-> acted, err |-> ""]
         ELSE IF w.swapFails
         THEN [returned |-> TRUE, scanned |-> TRUE,
               acts |-> Append(acted, "swapWithGroupMember"),
               err |-> "swap failed"]
         ELSE [returned |-> TRUE, scanned |-> TRUE,
               acts |-> Append(acted, "swapWithGroupMember"), err |-> ""]
    ELSE [returned |-> TRUE, scanned |-> TRUE, acts |-> acted, err |-> ""]

handleNewInstanceLaunch(regionName, state, w) ==
    IF ~enabled(regionName)
    THEN [returned |-> TRUE, scanned |-> FALSE, acts |-> <<>>,
          err |-> "region is not enabled"]
    ELSE IF w.scanErr
    THEN [returned |-> TRUE, scanned |-> FALSE, acts |-> <<>>,
          err |-> "scan failed"]
    ELSE IF ~w.found
    THEN [returned |-> TRUE, scanned |-> FALSE, acts |-> <<>>,
          err |-> "instance missing"]
    ELSE
    LET launch == /\ state = "pending"
                  /\ w.belongsToEnabledASG
                  /\ w.shouldBeReplacedWithSpot
        first == IF launch THEN <<"launchSpotReplacement">> ELSE <<>>
    IN
    IF launch /\ w.launchFails
    THEN [returned |-> TRUE, scanned |-> TRUE, acts |-> first,
          err |-> "launch failed"]
    ELSE IF state = "running"
    THEN IF ~w.unattached
         THEN [returned |-> TRUE, scanned |-> TRUE, acts |-> first, err |-> ""]
         ELSE IF w.swapFails
         THEN [returned |-> TRUE, scanned |-> TRUE,
               acts |-> Append(first, "swapWithGroupMember"),
               err |-> "swap failed"]
         ELSE [returned |-> TRUE, scanned |-> TRUE,
               acts |-> Append(first, "swapWithGroupMember"), err |-> ""]
    ELSE [returned |-> TRUE, scanned |-> TRUE, acts |-> first, err |-> ""]

savingsVars == <<hourlySavings, savingsMutex, workers>>
vars == <<conf, pc, event, parseEvent, target, calls, describe, regions, wg,
          units, world, result, hourlySavings, savingsMutex, workers, firstRun>>

Init ==
    /\ conf \in [TagFilteringMode : FilteringModes, FilterByTags : FilterExprs]
    /\ pc = "idle"
    /\ event = NoEvent
    /\ parseEvent = Malformed
    /\ target = NoTarget
    /\ calls = <<>>
    /\ describe = NoDescribe
    /\ regions = <<>>
    /\ wg = 0
    /\ units = <<>>
    /\ world = NoWorld
    /\ result = NoResult
    /\ hourlySavings = 0
    /\ savingsMutex = 0
    /\ workers = <<>>
    /\ firstRun = NoResult

\* EventHandler, from its entry to the call it dispatches to or to its return
EventHandler(p) ==
    /\ pc = "idle"
    /\ LET d == Dispatch(p) IN
         /\ pc' = d.next
         /\ parseEvent' = d.parseEvent
         /\ target' = d.target
    /\ event' = p
    /\ UNCHANGED <<conf, calls, describe, regions, wg, units, world, result>>
    /\ UNCHANGED savingsVars
    /\ UNCHANGED firstRun

\* spotTermination.executeAction(instanceID, a.config.TerminationNotificationAction)
ExecuteAction ==
    /\ pc = "terminate"
    /\ calls' = Append(calls, [op |-> "executeAction", region |-> target.region,
                               instanceID |-> target.instanceID,
                               arg |-> TerminationAction])
    /\ pc' = "done"
    /\ UNCHANGED <<conf, event, parseEvent, target, describe, regions, wg, units,
                   world, result>>
    /\ UNCHANGED savingsVars
    /\ UNCHANGED firstRun

\* a handler call that resolves the defaults of the configuration itself
HandleNewInstanceLaunchResolving ==
    /\ pc = "launch"
    /\ \E w \in Worlds :
         /\ world' = w
         /\ result' = handleNewInstanceLaunch(target.region, target.state, w)
    /\ calls' = Append(calls, [op |-> "handleNewInstanceLaunch",
                               region |-> target.region,
                               instanceID |-> target.instanceID,
                               arg |-> target.state])
    /\ conf' = addDefaultFilter(addDefaultFilteringMode(conf))
    /\ pc' = "done"
    /\ UNCHANGED <<event, parseEvent, target, describe, regions, wg, units>>
    /\ UNCHANGED savingsVars
    /\ UNCHANGED firstRun

\* a.handleNewInstanceLaunch(cloudwatchEvent.Region, *instanceID, *state)
HandleNewInstanceLaunch ==
    /\ pc = "launch"
    /\ \E w \in Worlds :
         /\ world' = w
         /\ result' = handleNewInstanceLaunch(target.region, target.state, w)
    /\ calls' = Append(calls, [op |-> "handleNewInstanceLaunch",
                               region |-> target.region,
                               instanceID |-> target.instanceID,
                               arg |-> target.state])
    /\ pc' = "done"
    /\ UNCHANGED <<conf, event, parseEvent, target, describe, regions, wg, units>>
    /\ UNCHANGED savingsVars
    /\ UNCHANGED firstRun

\* ProcessCronEvent up to its return on an enumeration error or to its call
\* of processRegions
ProcessCronEvent ==
    /\ pc = "cron"
    /\ conf' = addDefaultFilter(addDefaultFilteringMode(conf))
    /\ calls' = Append(calls, [op |-> "ProcessCronEvent", region |-> "",
                               instanceID |-> "", arg |-> ""])
    /\ \E resp \in DescribeRegionsOutputs :
         LET g == getRegions(resp) IN
         /\ describe' = resp
         /\ IF g.err
            THEN pc' = "done" /\ regions' = <<>>
            ELSE pc' = "processRegions" /\ regions' = g.output
    /\ UNCHANGED <<event, parseEvent, target, wg, units, world, result>>
    /\ UNCHANGED savingsVars
    /\ UNCHANGED firstRun

\* one iteration of the loop of processRegions: wg.Add(1), then go func()
Spawn ==
    /\ pc = "processRegions"
    /\ Len(units) < Len(regions)
    /\ wg' = wg + 1
    /\ units' = Append(units, [name |-> regions[Len(units) + 1], pc |-> "ready",
                               enabledCalls |-> 0, scans |-> 0, outcome |-> ""])
    /\ UNCHANGED <<conf, pc, event, parseEvent, target, calls, describe, regions,
                   world, result>>
    /\ UNCHANGED savingsVars
    /\ UNCHANGED firstRun

\* a goroutine that scans its region whatever the Region Filter answers
UnitEnabledIgnored(i) ==
    /\ i \in 1..Len(units)
    /\ units[i].pc = "ready"
    /\ units' = [units EXCEPT ![i].enabledCalls = @ + 1, ![i].pc = "enabled"]
    /\ UNCHANGED <<conf, pc, event, parseEvent, target, calls, describe, regions,
                   wg, world, result>>
    /\ UNCHANGED savingsVars
    /\ UNCHANGED firstRun

\* the goroutine evaluates r.enabled()
UnitEnabled(i) ==
    /\ i \in 1..Len(units)
    /\ units[i].pc = "ready"
    /\ units' = [units EXCEPT ![i].enabledCalls = @ + 1,
                              ![i].pc = IF enabled(units[i].name)
                                        THEN "enabled" ELSE "exit"]
    /\ UNCHANGED <<conf, pc, event, parseEvent, target, calls, describe, regions,
                   wg, world, result>>
    /\ UNCHANGED savingsVars
    /\ UNCHANGED firstRun

\* the goroutine enters r.processRegion()
UnitProcessRegion(i) ==
    /\ i \in 1..Len(units)
    /\ units[i].pc = "enabled"
    /\ units' = [units EXCEPT ![i].scans = @ + 1, ![i].pc = "scanning"]
    /\ UNCHANGED <<conf, pc, event, parseEvent, target, calls, describe, regions,
                   wg, world, result>>
    /\ UNCHANGED savingsVars
    /\ UNCHANGED firstRun

\* a failing scan that cancels the units which have not started their scan
UnitProcessRegionReturnsCancelling(i, outcome) ==
    /\ i \in 1..Len(units)
    /\ units[i].pc = "scanning"
    /\ units' = [j \in 1..Len(units) |->
                   IF j = i
                   THEN [units[j] EXCEPT !.outcome = outcome, !.pc = "exit"]
                   ELSE IF outcome = "failed" /\ units[j].pc \in {"ready", "enabled"}
                   THEN [units[j] EXCEPT !.pc = "exit"]
                   ELSE units[j]]
    /\ UNCHANGED <<conf, pc, event, parseEvent, target, calls, describe, regions,
                   wg, world, result>>
    /\ UNCHANGED savingsVars
    /\ UNCHANGED firstRun

\* r.processRegion() returns; it has no result, a failure is only logged
UnitProcessRegionReturns(i, outcome) ==
    /\ i \in 1..Len(units)
    /\ units[i].pc = "scanning"
    /\ units' = [units EXCEPT ![i].outcome = outcome, ![i].pc = "exit"]
    /\ UNCHANGED <<conf, pc, event, parseEvent, target, calls, describe, regions,
                   wg, world, result>>
    /\ UNCHANGED savingsVars
    /\ UNCHANGED firstRun

\* a goroutine that ends without calling wg.Done()
UnitDoneForgotten(i) ==
    /\ i \in 1..Len(units)
    /\ units[i].pc = "exit"
    /\ units' = [units EXCEPT ![i].pc = "finished"]
    /\ UNCHANGED <<conf, pc, event, parseEvent, target, calls, describe, regions,
                   wg, world, result>>
    /\ UNCHANGED savingsVars
    /\ UNCHANGED firstRun

\* the goroutine calls wg.Done() and ends
UnitDone(i) ==
    /\ i \in 1..Len(units)
    /\ units[i].pc = "exit"
    /\ wg' = wg - 1
    /\ units' = [units EXCEPT ![i].pc = "finished"]
    /\ UNCHANGED <<conf, pc, event, parseEvent, target, calls, describe, regions,
                   world, result>>
    /\ UNCHANGED savingsVars
    /\ UNCHANGED firstRun

\* processRegions returning without the barrier
WaitNoBarrier ==
    /\ pc = "processRegions"
    /\ Len(units) = Len(regions)
    /\ pc' = "done"
    /\ UNCHANGED <<conf, event, parseEvent, target, calls, describe, regions, wg,
                   units, world, result>>
    /\ UNCHANGED savingsVars
    /\ UNCHANGED firstRun

\* wg.Wait() returns, and with it processRegions and ProcessCronEvent
Wait ==
    /\ pc = "processRegions"
    /\ Len(units) = Len(regions)
    /\ wg = 0
    /\ pc' = "done"
    /\ UNCHANGED <<conf, event, parseEvent, target, calls, describe, regions, wg,
                   units, world, result>>
    /\ UNCHANGED savingsVars
    /\ UNCHANGED firstRun

\* The same state-change event is delivered once more while the instance and
\* the collaborators' answers are unchanged: EventHandler dispatches it to
\* handleNewInstanceLaunch again, in the state the first run left behind.
\* The outcome of the first run is kept in firstRun.
Redelivery ==
    /\ pc = "done"
    /\ result.returned
    /\ ~firstRun.returned
    /\ LET d == Dispatch(event) IN
         /\ d.next = "launch"
         /\ result' = handleNewInstanceLaunch(d.target.region, d.target.state, world)
         /\ calls' = Append(calls, [op |-> "handleNewInstanceLaunch",
                                    region |-> d.target.region,
                                    instanceID |-> d.target.instanceID,
                                    arg |-> d.target.state])
    /\ firstRun' = result
    /\ UNCHANGED <<conf, pc, event, parseEvent, target, describe, regions, wg,
                   units, world>>
    /\ UNCHANGED savingsVars

\* EventHandler returns; the next invocation starts from the same
\* AutoSpotting value, with the configuration as this one left it
Return ==
    /\ pc = "done"
    /\ pc' = "idle"
    /\ event' = NoEvent
    /\ parseEvent' = Malformed
    /\ target' = NoTarget
    /\ calls' = <<>>
    /\ describe' = NoDescribe
    /\ regions' = <<>>
    /\ wg' = 0
    /\ units' = <<>>
    /\ world' = NoWorld
    /\ result' = NoResult
    /\ UNCHANGED conf
    /\ UNCHANGED savingsVars
    /\ firstRun' = NoResult

Next ==
    \/ \E p \in Payloads : EventHandler(p)
    \/ ExecuteAction
    \/ HandleNewInstanceLaunch
    \/ ProcessCronEvent
    \/ Spawn
    \/ \E i \in 1..MaxRegions : UnitEnabled(i)
    \/ \E i \in 1..MaxRegions : UnitProcessRegion(i)
    \/ \E i \in 1..MaxRegions, o \in {"ok", "failed"} : UnitProcessRegionReturns(i, o)
    \/ \E i \in 1..MaxRegions : UnitDone(i)
    \/ Wait
    \/ Redelivery
    \/ Return

Spec == Init /\ [][Next]_vars

TypeOK ==
    /\ pc \in {"idle", "cron", "processRegions", "terminate", "launch", "done",
               "panicked"}
    /\ event \in Payloads
    /\ wg \in 0..MaxRegions
    /\ Len(units) <= Len(regions)

(***************************************************************************)
(* The periodic scan.                                                      *)
(***************************************************************************)
\* processRegions has returned to ProcessCronEvent, and it to EventHandler
ScanReturned ==
    /\ pc = "done"
    /\ calls # <<>>
    /\ calls[Len(calls)].op = "ProcessCronEvent"
    /\ ~describe.err

\* C1: processRegions spawns exactly one unit per enumerated region, in the
\* order of the list, and has returned only when every one of them has
\* completed; before it returns, the units it has spawned are a prefix of
\* the list.
C1_BarrierJoin ==
    /\ Len(units) <= Len(regions)
    /\ \A i \in 1..Len(units) : units[i].name = regions[i]
    /\ ScanReturned =>
         /\ Len(units) = Len(regions)
         /\ \A i \in 1..Len(units) : units[i].pc = "finished"

C1_Witness ==
    /\ ScanReturned
    /\ Len(regions) >= 2
    /\ \E i \in 1..Len(units) : units[i].outcome = "ok"

\* C2: a failing region scan leaves its siblings alone.  The step in which
\* a unit's scan fails changes no other unit and neither the coordinator nor
\* the WaitGroup; once every unit has finished the coordinator can return;
\* and when it has returned after some unit failed, every other unit has
\* finished, the ones of enabled regions with their one scan run to its end.
SiblingsDone(i) ==
    \A j \in 1..Len(units) :
        j # i => /\ units[j].pc = "finished"
                 /\ enabled(units[j].name) =>
                        units[j].scans = 1 /\ units[j].outcome \in {"ok", "failed"}

FailureStep(i) ==
    /\ i \in 1..Len(units)
    /\ units[i].pc = "scanning"
    /\ Len(units') = Len(units)
    /\ units'[i].outcome = "failed"

C2_FanOutIsolation ==
    /\ [](ScanReturned =>
            \A i \in 1..Len(units) : units[i].outcome = "failed" => SiblingsDone(i))
    /\ []((/\ pc = "processRegions"
           /\ Len(units) = Len(regions)
           /\ \A i \in 1..Len(units) : units[i].pc = "finished") => ENABLED Wait)
    /\ [][\A i \in 1..MaxRegions :
            FailureStep(i) =>
                /\ \A j \in 1..Len(units) : j # i => units'[j] = units[j]
                /\ pc' = pc /\ wg' = wg /\ regions' = regions]_vars

C2_Witness ==
    /\ ScanReturned
    /\ \E i, j \in 1..Len(units) :
         /\ units[i].outcome = "failed"
         /\ units[j].outcome = "ok"

\* C9: when DescribeRegions fails the periodic scan is over at once: the
\* list of regions is empty, no unit is spawned, so that no enablement check
\* is made and no region scan is started.
C9_EnumerationFailureAborts ==
    describe.err =>
        /\ pc = "done"
        /\ regions = <<>>
        /\ units = <<>>
        /\ wg = 0

C9_Witness ==
    /\ describe.err
    /\ pc = "done"
    /\ \E i \in 1..Len(describe.Regions) : describe.Regions[i] # ""
    /\ calls = <<[op |-> "ProcessCronEvent", region |-> "", instanceID |-> "",
                  arg |-> ""]>>

\* C10: no unit asks the Region Filter or scans more than once, a unit scans
\* only an enabled region, and when the periodic scan has returned every
\* unit has asked the Region Filter once and has scanned once if its region
\* is enabled and not at all if it is not.
C10_FilterThenScanOnce ==
    /\ \A i \in 1..Len(units) :
         /\ units[i].enabledCalls <= 1
         /\ units[i].scans <= 1
         /\ units[i].scans = 1 => enabled(units[i].name)
    /\ ScanReturned =>
         \A i \in 1..Len(units) :
             /\ units[i].enabledCalls = 1
             /\ units[i].scans = IF enabled(units[i].name) THEN 1 ELSE 0

C10_Witness ==
    /\ ScanReturned
    /\ \E i, j \in 1..Len(units) :
         /\ enabled(units[i].name) /\ units[i].scans = 1
         /\ ~enabled(units[j].name) /\ units[j].scans = 0

(***************************************************************************)
(* The event dispatch.                                                     *)
(***************************************************************************)
\* the payload is an envelope that decodes and has at least one record
IsEnvelope(p) == p.present /\ p.snsOk /\ p.hasRecords /\ Len(p.Records) >= 1
\* the text that is classified: the first record's message, else the payload
Working(p) == IF IsEnvelope(p) THEN p.Records[1] ELSE p.body
CronCall == [op |-> "ProcessCronEvent", region |-> "", instanceID |-> "", arg |-> ""]
Handling == pc # "idle"

\* C3: EventHandler's working payload is the message of the first record of
\* an envelope that decodes with at least one record, and in every other
\* case it is the original payload and the handler has not failed.
C3_UnwrapFirstRecord ==
    Handling =>
        IF IsEnvelope(event)
        THEN parseEvent = event.Records[1]
        ELSE parseEvent = event.body /\ pc # "panicked"

\* C4, as claimed: a present payload that does not decode as a lifecycle
\* event has run the periodic scan when EventHandler is done.
C4_FallBackOnParseFailure ==
    (pc = "done" /\ event.present /\ ~Working(event).wellFormed) =>
        calls = <<CronCall>>

\* C4, amended: a present payload that does not decode as a lifecycle event
\* ends the invocation with no periodic scan run and no executor or handler
\* invoked; it never reaches ProcessCronEvent.
C4_StopOnParseFailure ==
    (Handling /\ event.present /\ ~Working(event).wellFormed) =>
        /\ pc \in {"done", "panicked"}
        /\ calls = <<>>
        /\ units = <<>>

C4_Witness ==
    /\ pc = "done"
    /\ event.present /\ event.snsOk
    /\ ~Working(event).wellFormed
    /\ parseEvent = Working(event)
    /\ calls = <<>>

\* C5: for an absent payload, and for a payload whose classified text decodes
\* with a DetailType other than the two recognized ones, EventHandler calls
\* nothing but ProcessCronEvent, and when it has ended it has called it
\* exactly once.
FallsToCron(p) ==
    \/ ~p.present
    \/ /\ p.snsOk
       /\ Working(p).wellFormed
       /\ Working(p).DetailType \notin {SpotInterruption, StateChange}

C5_CronExactlyOnce ==
    (Handling /\ FallsToCron(event)) =>
        /\ calls \in {<<>>, <<CronCall>>}
        /\ pc \in {"done", "panicked"} => calls = <<CronCall>>

(***************************************************************************)
(* The event-scoped decision.                                              *)
(***************************************************************************)
\* the transition table, over the state handed to handleNewInstanceLaunch
TableAction(state, w) ==
    IF state = "pending"
    THEN IF w.belongsToEnabledASG /\ w.shouldBeReplacedWithSpot
         THEN <<"launchSpotReplacement">> ELSE <<>>
    ELSE IF state = "running"
    THEN IF w.unattached THEN <<"swapWithGroupMember">> ELSE <<>>
    ELSE <<>>

\* C6: after a successful scan that found the instance, the executors
\* handleNewInstanceLaunch invoked are the ones of the transition table, and
\* a row whose action is NoAction returns a nil error.
C6_TransitionTable ==
    (result.returned /\ result.scanned) =>
        /\ result.acts = TableAction(target.state, world)
        /\ TableAction(target.state, world) = <<>> => result.err = ""

C6_Witness ==
    /\ result.returned /\ result.scanned
    /\ target.state = "pending"
    /\ world.belongsToEnabledASG /\ ~world.shouldBeReplacedWithSpot
    /\ result.acts = <<>>

\* C7: one run of handleNewInstanceLaunch invokes at most one executor and
\* invokes it once (never both, never a second attempt), and when that
\* executor fails the run returns a non-nil error.
C7_AtMostOneAction ==
    result.returned =>
        /\ Len(result.acts) <= 1
        /\ (result.acts = <<"launchSpotReplacement">> /\ world.launchFails) =>
               result.err # ""
        /\ (result.acts = <<"swapWithGroupMember">> /\ world.swapFails) =>
               result.err # ""

C7_Witness ==
    /\ result.returned
    /\ result.acts = <<"launchSpotReplacement">>
    /\ world.launchFails
    /\ result.err # ""

\* C8: handleNewInstanceLaunch returns a non-nil error without invoking an
\* executor when the region is not enabled, the single-instance scan fails
\* or the instance is not found; an executor is invoked only in an enabled
\* region after a scan that succeeded and found the instance.
C8_ErrorsBeforeDecision ==
    result.returned =>
        /\ (~enabled(target.region) \/ world.scanErr \/ ~world.found) =>
               result.acts = <<>> /\ result.err # ""
        /\ result.acts # <<>> =>
               enabled(target.region) /\ ~world.scanErr /\ world.found

C8_Witness ==
    /\ result.returned
    /\ ~enabled(target.region)
    /\ world.found
    /\ world.belongsToEnabledASG /\ world.shouldBeReplacedWithSpot
    /\ target.state = "pending"
    /\ result.err # ""
\* the classified text decodes with the given DetailType
Recognized(p, detailType) ==
    /\ p.present /\ p.snsOk
    /\ Working(p).wellFormed
    /\ Working(p).DetailType = detailType
Ended == pc \in {"done", "panicked"}

\* C11: for a working payload of DetailType "EC2 Spot Instance Interruption
\* Warning" whose instance ID can be extracted, EventHandler calls nothing
\* but the termination executor, and when it has ended it has called it
\* exactly once, with the region of the event, that instance ID and the
\* configured termination action.
C11_InterruptionExecutesOnce ==
    (/\ Handling
     /\ Recognized(event, SpotInterruption)
     /\ Working(event).detail.parses
     /\ Working(event).detail.InstanceID # "") =>
        LET call == [op |-> "executeAction", region |-> Working(event).Region,
                     instanceID |-> Working(event).detail.InstanceID,
                     arg |-> TerminationAction]
        IN  /\ calls \in {<<>>, <<call>>}
            /\ Ended => calls = <<call>>

\* C12: for a working payload of a recognized DetailType whose instance ID
\* (or, for a state change, state) cannot be extracted, EventHandler ends
\* the invocation at once: it calls neither the periodic scan nor an
\* executor nor the instance handler.
Unextractable(p) ==
    \/ /\ Recognized(p, SpotInterruption)
       /\ (~Working(p).detail.parses \/ Working(p).detail.InstanceID = "")
    \/ /\ Recognized(p, StateChange)
       /\ \/ ~Working(p).detail.parses
          \/ Working(p).detail.InstanceID = ""
          \/ Working(p).detail.State = ""

C12_MalformedRecognizedStops ==
    (Handling /\ Unextractable(event)) =>
        /\ Ended
        /\ calls = <<>>
        /\ units = <<>>
        /\ ~result.returned

C12_Witness ==
    /\ pc = "done"
    /\ Recognized(event, StateChange)
    /\ ~Working(event).detail.parses
    /\ IsEnvelope(event)
    /\ calls = <<>>
(***************************************************************************)
(* The configuration.                                                      *)
(***************************************************************************)
Blank(expr) == expr \in {"", " "}
Resolved(cfg) ==
    /\ cfg.TagFilteringMode \in {"opt-in", "opt-out"}
    /\ ~Blank(cfg.FilterByTags)

C14_Defaults ==
    [][(pc = "cron" /\ pc' # "cron") =>
         LET mode == IF conf.TagFilteringMode = "opt-out" THEN "opt-out" ELSE "opt-in"
         IN  /\ conf'.TagFilteringMode = mode
             /\ conf'.FilterByTags =
                    IF Blank(conf.FilterByTags)
                    THEN IF mode = "opt-out" THEN "spot-enabled=false"
                                             ELSE "spot-enabled=true"
                    ELSE conf.FilterByTags
             /\ addDefaultFilter(addDefaultFilteringMode(conf')) = conf']_vars

C14_Witness ==
    /\ pc \in {"processRegions", "done"}
    /\ calls = <<CronCall>>
    /\ conf = [TagFilteringMode |-> "opt-out", FilterByTags |-> "spot-enabled=false"]
(***************************************************************************)
(* The Savings Accumulator: hourlySavings guarded by savingsMutex.  Each   *)
(* worker has completed a successful action and adds its delta: it takes   *)
(* the lock, reads the total, writes the total plus its delta and releases *)
(* the lock.                                                               *)
(***************************************************************************)
Deltas == {1, 2}
handlerVars == <<conf, pc, event, parseEvent, target, calls, describe, regions,
                 wg, units, world, result, firstRun>>

InitSavings ==
    /\ conf = [TagFilteringMode |-> "opt-in", FilterByTags |-> "spot-enabled=true"]
    /\ pc = "idle"
    /\ event = NoEvent
    /\ parseEvent = Malformed
    /\ target = NoTarget
    /\ calls = <<>>
    /\ describe = NoDescribe
    /\ regions = <<>>
    /\ wg = 0
    /\ units = <<>>
    /\ world = NoWorld
    /\ result = NoResult
    /\ hourlySavings = 0
    /\ savingsMutex = 0
    /\ firstRun = NoResult
    /\ workers \in [1..MaxWorkers -> [pc : {"start"}, delta : Deltas, read : {0}]]

\* savingsMutex.Lock() without mutual exclusion
SavingsLockShared(w) ==
    /\ workers[w].pc = "start"
    /\ savingsMutex' = w
    /\ workers' = [workers EXCEPT ![w].pc = "locked"]
    /\ UNCHANGED hourlySavings
    /\ UNCHANGED handlerVars

\* savingsMutex.Lock()
SavingsLock(w) ==
    /\ workers[w].pc = "start"
    /\ savingsMutex = 0
    /\ savingsMutex' = w
    /\ workers' = [workers EXCEPT ![w].pc = "locked"]
    /\ UNCHANGED hourlySavings
    /\ UNCHANGED handlerVars

\* the read of hourlySavings in hourlySavings += delta
SavingsLoad(w) ==
    /\ workers[w].pc = "locked"
    /\ workers' = [workers EXCEPT ![w].read = hourlySavings, ![w].pc = "loaded"]
    /\ UNCHANGED <<hourlySavings, savingsMutex>>
    /\ UNCHANGED handlerVars

\* the write of hourlySavings in hourlySavings += delta
SavingsStore(w) ==
    /\ workers[w].pc = "loaded"
    /\ hourlySavings' = workers[w].read + workers[w].delta
    /\ workers' = [workers EXCEPT ![w].pc = "stored"]
    /\ UNCHANGED savingsMutex
    /\ UNCHANGED handlerVars

\* savingsMutex.Unlock()
SavingsUnlock(w) ==
    /\ workers[w].pc = "stored"
    /\ savingsMutex' = 0
    /\ workers' = [workers EXCEPT ![w].pc = "done"]
    /\ UNCHANGED hourlySavings
    /\ UNCHANGED handlerVars

NextSavings ==
    \/ \E w \in 1..MaxWorkers : SavingsLock(w)
    \/ \E w \in 1..MaxWorkers : SavingsLoad(w)
    \/ \E w \in 1..MaxWorkers : SavingsStore(w)
    \/ \E w \in 1..MaxWorkers : SavingsUnlock(w)

SpecSavings == InitSavings /\ [][NextSavings]_vars

RECURSIVE SumOfDeltas(_, _)
SumOfDeltas(ws, n) == IF n = 0 THEN 0 ELSE ws[n].delta + SumOfDeltas(ws, n - 1)

\* C15: when every worker has added its delta the savings total is the exact
\* sum of the deltas, whatever the interleaving, and no step decreases the
\* total.
C15_NoLostUpdate ==
    /\ []((\A w \in 1..Len(workers) : workers[w].pc = "done") =>
              hourlySavings = SumOfDeltas(workers, Len(workers)))
    /\ [][hourlySavings' >= hourlySavings]_vars

C15_Witness ==
    /\ Len(workers) = MaxWorkers
    /\ \A w \in 1..Len(workers) : workers[w].pc = "done"
    /\ \E v, w \in 1..Len(workers) : workers[v].delta # workers[w].delta
    /\ hourlySavings > 0
ExecutorCalled ==
    \/ \E k \in 1..Len(calls) : calls[k].op = "executeAction"
    \/ result.acts # <<>>

\* C17: no executor is invoked for a region that is not enabled: a region
\* unit scans only an enabled region, handleNewInstanceLaunch invokes an
\* executor only in an enabled region, and the termination executor is
\* called only with an enabled region.
C17_NoActionInDisabledRegion ==
    /\ \A i \in 1..Len(units) : units[i].scans > 0 => enabled(units[i].name)
    /\ result.acts # <<>> => enabled(target.region)
    /\ \A k \in 1..Len(calls) :
           calls[k].op = "executeAction" => enabled(calls[k].region)

\* group discovery has started in this invocation: a region unit has entered
\* processRegion, or handleNewInstanceLaunch has passed its filter check
DiscoveryStarted ==
    \/ \E i \in 1..Len(units) : units[i].scans > 0
    \/ result.returned /\ enabled(target.region)

\* C18: whenever group discovery has started, on the periodic or on the
\* event-scoped path, the filtering mode is "opt-in" or "opt-out" and the
\* filter expression is not blank.
C18_DefaultsResolvedAtDiscovery ==
    DiscoveryStarted => Resolved(conf)

\* C19, as claimed: launchSpotReplacement is invoked only for an instance
\* scanned in state pending and swapWithGroupMember only for one scanned in
\* state running.
InActs(a) == \E k \in 1..Len(result.acts) : result.acts[k] = a

C19_ActionMatchesScannedState ==
    /\ InActs("launchSpotReplacement") => world.State = "pending"
    /\ InActs("swapWithGroupMember") => world.State = "running"

\* C19, amended: launchSpotReplacement is invoked only when the state carried
\* by the event is pending and swapWithGroupMember only when it is running,
\* whatever state the scan observes.
C19_ActionMatchesEventState ==
    /\ InActs("launchSpotReplacement") => target.state = "pending"
    /\ InActs("swapWithGroupMember") => target.state = "running"

C19_Witness ==
    /\ result.returned
    /\ InActs("launchSpotReplacement")
    /\ target.state = "pending"
    /\ world.State = "running"
(***************************************************************************)
(* Termination of the periodic scan.  The Go scheduler runs every runnable *)
(* goroutine eventually: the loop of processRegions, each step of each     *)
(* unit and the return of wg.Wait() are weakly fair; that processRegion    *)
(* returns is the hypothesis that every unit finishes.                     *)
(***************************************************************************)
FairSpec ==
    /\ Spec
    /\ WF_vars(Spawn)
    /\ \A i \in 1..MaxRegions : WF_vars(UnitEnabled(i))
    /\ \A i \in 1..MaxRegions : WF_vars(UnitProcessRegion(i))
    /\ \A i \in 1..MaxRegions :
           WF_vars(\E o \in {"ok", "failed"} : UnitProcessRegionReturns(i, o))
    /\ \A i \in 1..MaxRegions : WF_vars(UnitDone(i))
    /\ WF_vars(Wait)

\* C20: once processRegions has been entered, with any number of regions
\* including none, it eventually returns.
C20_ScanEventuallyReturns ==
    (pc = "processRegions") ~> (pc = "done")

C20_Witness ==
    /\ ScanReturned
    /\ regions = <<>>
    /\ units = <<>>
    /\ event.present
====
